---------------------------- MODULE Spec2Model ----------------------------
(***************************************************************************)
(* A model of the Baltimore dashboard repository:                          *)
(*   - full_pipeline.py: the sequential pipeline driver (main, run_script, *)
(*     run_data_extraction, run_validation, check_prerequisites);          *)
(*   - Baltimore_Dashboard_Updated.py: load_data and main, the city        *)
(*     overview, the neighbourhood explorer's tract-versus-city            *)
(*     comparison and the correlation tiering.                             *)
(* Floating point arithmetic is modelled by exact rationals.               *)
(***************************************************************************)
EXTENDS Integers, Sequences, FiniteSets, TLC

VARIABLES
    \* ---- full_pipeline.py ----
    args,          \* parsed command line: [skip_download, validate_only]
    env,           \* the working directory: [dotenv, scripts, pandas]
    fs,            \* state of each output file
    table,         \* contents of the integrated table: [rows, readable]
    pc,            \* position of main()
    step,          \* index of the loop of run_data_extraction
    child,         \* the subprocess run_script is waiting for
    success,       \* main's local variable
    attempted,     \* scripts handed to run_script, in order (history)
    outcomes,      \* how each attempted script ended (history)
    validation,    \* last run_validation: [runs, passed, total, result]
    prereq,        \* value returned by check_prerequisites
    exit_status,   \* value returned by main(), -1 while running
    \* ---- Baltimore_Dashboard_Updated.py ----
    loaded,        \* the data frame as load_data returned it
    df,            \* the data frame the views are handed
    explorer,      \* what show_neighborhood_explorer rendered last
    analysis,      \* what show_indicator_analysis rendered last
    coef,          \* a correlation coefficient to classify: <<num, den>>
    csv,           \* the file load_data reads: [kind, frame]
    cache,         \* the st.cache_data entry of load_data: [set, value]
    rendered,      \* what the last run of main() put on the page
    overview       \* what show_city_overview rendered last

pvars == <<args, env, fs, table, pc, step, child, success, attempted,
           outcomes, validation, prereq, exit_status>>

dvars == <<loaded, df, explorer, analysis, coef>>

mvars == <<csv, cache, rendered, overview>>

vars == <<pvars, dvars, mvars>>

-----------------------------------------------------------------------------
(* full_pipeline.py                                                        *)

\* required_scripts of check_prerequisites, in the order main() runs them
RequiredScripts ==
    << "expand_health_indicators.py", "fetch_census_economic_data.py",
       "integrate_economic_data.py", "Baltimore_MetricsWithMap.py" >>

\* steps of run_data_extraction
ExtractionSteps ==
    << "expand_health_indicators.py", "fetch_census_economic_data.py" >>

health_file     == "data/health_expanded/baltimore_health_35indicators_2022.csv"
econ_file       == "data/economic/baltimore_economic_data_2022.csv"
integrated_file == "data/integrated/baltimore_integrated_health_economic_2022.csv"
dashboard_file  == "output/dashboard_multi_year.html"

\* the four files run_validation looks for, in the order it checks them
OutputFiles == << health_file, econ_file, integrated_file, dashboard_file >>

\* the file each script is expected to generate (print_summary lists them in
\* the order of the steps)
OutputOf(script) ==
    CASE script = "expand_health_indicators.py"   -> health_file
      [] script = "fetch_census_economic_data.py" -> econ_file
      [] script = "integrate_economic_data.py"    -> integrated_file
      [] script = "Baltimore_MetricsWithMap.py"   -> dashboard_file

\* the tract count run_validation expects in the integrated table
ExpectedTracts == 199

\* how far from ExpectedTracts the modelled row counts go
RowSlack == 1

RowCounts == {0} \cup ((ExpectedTracts - RowSlack) .. (ExpectedTracts + RowSlack))

\* "absent": no file; "old": the complete file from before the run;
\* "partial": a file whose writer was stopped midway; "new": a complete file
\* written during this run
FileStates == {"absent", "old", "partial", "new"}

Exists(f) == fs[f] # "absent"

NoChild == [script |-> "", phase |-> "none"]

NoTable == [rows |-> 0, readable |-> FALSE]

Range(s) == {s[i] : i \in 1..Len(s)}

\* main, line 268: if success: run_validation()
ValidationStmt(s) == IF s THEN "validation" ELSE "summary"

\* mutant: the generation step no longer looks at success
GenerationStmtUnguarded(s) == "generation"

\* main, line 265: if success and not run_dashboard_generation()
GenerationStmt(s) == IF s THEN "generation" ELSE ValidationStmt(s)

\* main, line 262: if success and not run_data_integration()
IntegrationStmt(s) == IF s THEN "integration" ELSE GenerationStmt(s)

\* mutant: --skip-download is tested before --validate-only
FlagBranchSkipFirst(a) ==
    IF a.skip_download THEN IntegrationStmt(TRUE)
    ELSE IF a.validate_only THEN "validation"
    ELSE "extraction"

\* main, lines 255-259: the branch on the two flags
FlagBranch(a) ==
    IF a.validate_only THEN "validation"
    ELSE IF ~a.skip_download THEN "extraction"
    ELSE IntegrationStmt(TRUE)

\* check_prerequisites: all_good
AllGood(e) ==
    /\ e.dotenv
    /\ \A i \in 1..Len(RequiredScripts) : RequiredScripts[i] \in e.scripts

\* mutant: a failed prerequisite check ends the run
AfterPrerequisitesAbort(ok, a) == IF ok THEN FlagBranch(a) ELSE "summary"

\* main, lines 250-255: "if not check_prerequisites()" only prints a
\* warning ("... but continuing") and goes on to the branch on the flags
AfterPrerequisites(ok, a) == FlagBranch(a)

\* main, lines 250-252: the result of the check only chooses a message
CheckPrerequisites ==
    /\ pc = "prereq"
    /\ prereq' = AllGood(env)
    /\ pc' = AfterPrerequisites(AllGood(env), args)
    /\ UNCHANGED <<args, env, fs, table, step, child, success, attempted,
                   outcomes, validation, exit_status,
                   dvars, mvars>>

\* the script the statement at pc hands to run_script
CurrentScript ==
    CASE pc = "extraction"  -> ExtractionSteps[step]
      [] pc = "integration" -> "integrate_economic_data.py"
      [] pc = "generation"  -> "Baltimore_MetricsWithMap.py"

InScriptStep == pc \in {"extraction", "integration", "generation"}

\* what the caller of run_script does with its result r
Returned(r) ==
    CASE pc = "extraction" ->
            IF r
              THEN IF step < Len(ExtractionSteps)
                     THEN /\ step' = step + 1
                          /\ pc' = pc
                          /\ success' = success
                     ELSE /\ step' = step
                          /\ pc' = IntegrationStmt(success)
                          /\ success' = success
              ELSE /\ step' = step
                   /\ success' = FALSE
                   /\ pc' = IntegrationStmt(FALSE)
      [] pc = "integration" ->
            /\ step' = step
            /\ success' = (success /\ r)
            /\ pc' = GenerationStmt(success /\ r)
      [] pc = "generation" ->
            /\ step' = step
            /\ success' = (success /\ r)
            /\ pc' = ValidationStmt(success /\ r)

\* run_script: subprocess.run starts the interpreter on the script
StartScript ==
    /\ InScriptStep
    /\ child = NoChild
    /\ attempted' = Append(attempted, CurrentScript)
    /\ child' = [script |-> CurrentScript, phase |-> "spawned"]
    /\ UNCHANGED <<args, env, fs, table, pc, step, success, outcomes,
                   validation, prereq, exit_status,
                   dvars, mvars>>

\* run_script: subprocess.run raises something other than TimeoutExpired
\* (the interpreter cannot be started); caught by "except Exception"
SpawnFails ==
    /\ InScriptStep
    /\ child = NoChild
    /\ attempted' = Append(attempted, CurrentScript)
    /\ outcomes' = Append(outcomes, "exception")
    /\ Returned(FALSE)
    /\ UNCHANGED <<args, env, fs, table, child, validation, prereq,
                   exit_status,
                   dvars, mvars>>

\* The scripts are separate programs. The driver gives them no staging
\* directory and no rename step, so how a script writes its file is its own
\* business: in place (ChildBeginWrite, ChildFinishWrite) or by an atomic
\* replacement (ChildReplaceFile), or not at all.
ChildBeginWrite ==
    /\ child.phase = "spawned"
    /\ child.script \in env.scripts
    /\ fs' = [fs EXCEPT ![OutputOf(child.script)] = "partial"]
    /\ IF OutputOf(child.script) = integrated_file
         THEN table' \in [rows : RowCounts, readable : BOOLEAN]
         ELSE table' = table
    /\ child' = [child EXCEPT !.phase = "writing"]
    /\ UNCHANGED <<args, env, pc, step, success, attempted, outcomes,
                   validation, prereq, exit_status,
                   dvars, mvars>>

ChildFinishWrite ==
    /\ child.phase = "writing"
    /\ fs' = [fs EXCEPT ![OutputOf(child.script)] = "new"]
    /\ IF OutputOf(child.script) = integrated_file
         THEN table' \in [rows : RowCounts, readable : {TRUE}]
         ELSE table' = table
    /\ child' = [child EXCEPT !.phase = "written"]
    /\ UNCHANGED <<args, env, pc, step, success, attempted, outcomes,
                   validation, prereq, exit_status,
                   dvars, mvars>>

ChildReplaceFile ==
    /\ child.phase = "spawned"
    /\ child.script \in env.scripts
    /\ fs' = [fs EXCEPT ![OutputOf(child.script)] = "new"]
    /\ IF OutputOf(child.script) = integrated_file
         THEN table' \in [rows : RowCounts, readable : {TRUE}]
         ELSE table' = table
    /\ child' = [child EXCEPT !.phase = "written"]
    /\ UNCHANGED <<args, env, pc, step, success, attempted, outcomes,
                   validation, prereq, exit_status,
                   dvars, mvars>>

\* exit codes of a script: 0, or a failure code
ReturnCodes == 0..2

\* run_script, lines 52-66: the child exits (at any point of its work) and
\* result.returncode decides. A missing script makes the interpreter exit
\* with code 2 at once.
ChildExits ==
    /\ child.phase # "none"
    /\ \E rc \in ReturnCodes :
         /\ child.script \notin env.scripts => rc = 2
         /\ outcomes' = Append(outcomes, IF rc = 0 THEN "ok" ELSE "nonzero")
         /\ Returned(rc = 0)
    /\ child' = NoChild
    /\ UNCHANGED <<args, env, fs, table, attempted, validation, prereq,
                   exit_status,
                   dvars, mvars>>

\* run_script, lines 68-70: after 300 s subprocess.run kills the child,
\* wherever it is, and raises TimeoutExpired
TimeoutExpired ==
    /\ child.phase # "none"
    /\ child.script \in env.scripts
    /\ outcomes' = Append(outcomes, "timeout")
    /\ Returned(FALSE)
    /\ child' = NoChild
    /\ UNCHANGED <<args, env, fs, table, attempted, validation, prereq,
                   exit_status,
                   dvars, mvars>>

\* mutant: the row check accepts any table with at least the expected rows
RowCheckAtLeast(e, f, t) ==
    /\ e.pandas
    /\ f[integrated_file] # "absent"
    /\ t.readable
    /\ t.rows >= ExpectedTracts

\* run_validation, check 5: pandas imports, read_csv parses the integrated
\* file, and the frame has the expected number of rows
RowCheck(e, f, t) ==
    /\ e.pandas
    /\ f[integrated_file] # "absent"
    /\ t.readable
    /\ t.rows = ExpectedTracts

\* run_validation: the outcome of each check, in order
Checks(e, f, t) ==
    [i \in 1..Len(OutputFiles) |-> f[OutputFiles[i]] # "absent"]
        \o << RowCheck(e, f, t) >>

RECURSIVE CountTrue(_)
CountTrue(s) ==
    IF s = <<>> THEN 0
    ELSE (IF Head(s) THEN 1 ELSE 0) + CountTrue(Tail(s))

\* run_validation: checks_passed, checks_total and the returned value
ValidationResult(e, f, t) ==
    LET c == Checks(e, f, t) IN
    [passed |-> CountTrue(c), total |-> Len(c),
     result |-> (CountTrue(c) = Len(c))]

\* main, lines 255-256 and 268-269: only --validate-only keeps the result
RunValidation ==
    /\ pc = "validation"
    /\ LET v == ValidationResult(env, fs, table) IN
         /\ validation' = [runs |-> validation.runs + 1, passed |-> v.passed,
                           total |-> v.total, result |-> v.result]
         /\ success' = IF args.validate_only THEN v.result ELSE success
    /\ pc' = "summary"
    /\ UNCHANGED <<args, env, fs, table, step, child, attempted, outcomes,
                   prereq, exit_status,
                   dvars, mvars>>

\* main, line 276
ExitStatus(s) == IF s THEN 0 ELSE 1

\* main, lines 271-276: print_summary and return
Finish ==
    /\ pc = "summary"
    /\ exit_status' = ExitStatus(success)
    /\ pc' = "done"
    /\ UNCHANGED <<args, env, fs, table, step, child, success, attempted,
                   outcomes, validation, prereq,
                   dvars, mvars>>

-----------------------------------------------------------------------------
(* Baltimore_Dashboard_Updated.py: numbers                                 *)

Abs(x) == IF x < 0 THEN -x ELSE x

Sign(x) == IF x < 0 THEN -1 ELSE IF x = 0 THEN 0 ELSE 1

RECURSIVE GCD(_, _)
GCD(a, b) == IF b = 0 THEN a ELSE GCD(b, a % b)

\* A float is NaN or the fraction n/d in lowest terms with d >= 0; d = 0 is
\* an infinity (what numpy division by zero gives).
NaN == [nan |-> TRUE, n |-> 0, d |-> 1]

Q(n, d) ==
    LET g == GCD(Abs(n), Abs(d))
        s == IF d < 0 THEN -1 ELSE 1
    IN  IF g = 0 THEN NaN
        ELSE [nan |-> FALSE, n |-> (s * n) \div g, d |-> (s * d) \div g]

notna(x) == ~x.nan

FAdd(a, b) ==
    IF a.nan \/ b.nan THEN NaN ELSE Q(a.n * b.d + b.n * a.d, a.d * b.d)

FSub(a, b) ==
    IF a.nan \/ b.nan THEN NaN ELSE Q(a.n * b.d - b.n * a.d, a.d * b.d)

FMul(a, b) ==
    IF a.nan \/ b.nan THEN NaN ELSE Q(a.n * b.n, a.d * b.d)

FDiv(a, b) ==
    IF a.nan \/ b.nan THEN NaN ELSE Q(a.n * b.d, a.d * b.n)

FLess(a, b) == a.n * b.d < b.n * a.d

IsZero(x) == ~x.nan /\ x.n = 0 /\ x.d # 0

-----------------------------------------------------------------------------
(* Baltimore_Dashboard_Updated.py: the data frame                          *)

\* the indicator columns the explorer and the analysis read
Keys ==
    << "poverty_rate", "unemployment_rate", "median_household_income_econ",
       "gini_index", "housing_cost_burden_rate", "snap_participation_rate",
       "public_assistance_rate", "home_ownership_rate", "vacancy_rate",
       "uninsured_rate", "disability_rate", "college_degree_rate",
       "long_commute_rate" >>

KeyIndex(k) == CHOOSE i \in 1..Len(Keys) : Keys[i] = k

\* number of tracts (rows) of the modelled data frame
NumTracts == 2

\* indicator values are 0..MaxVal, or missing
MaxVal == 2

\* at most this many indicator columns are absent from the file
MaxAbsent == 2

Cells == {NaN} \cup {Q(v, 1) : v \in 0..MaxVal}

\* the column 'tract' of row i: a numeric tract code
TractCode(i) == 10100 * i + 1

\* a column nobody chose: a fixed mixture of values and missing cells
DefaultColumn(k, rows) ==
    [i \in 1..rows |->
        IF (KeyIndex(k) + i) % 3 = 0 THEN NaN
        ELSE Q((KeyIndex(k) * i) % (MaxVal + 1), 1)]

\* A data frame: the column names, the row count, and the cells of every
\* indicator column (all missing for a column the file does not have).
\* chosen maps some keys to the cells of their column.
Frame(rows, absent, chosen) ==
    [columns |-> {"tract"} \cup (Range(Keys) \ absent),
     rows    |-> rows,
     data    |-> [k \in Range(Keys) |->
                    IF k \in absent THEN [i \in 1..rows |-> NaN]
                    ELSE IF k \in DOMAIN chosen THEN chosen[k]
                    ELSE DefaultColumn(k, rows)]]

IdlePipeline ==
    /\ args = [skip_download |-> FALSE, validate_only |-> FALSE]
    /\ env = [dotenv |-> TRUE, scripts |-> {}, pandas |-> TRUE]
    /\ fs = [f \in Range(OutputFiles) |-> "absent"]
    /\ table = NoTable
    /\ pc = "idle"
    /\ step = 1
    /\ child = NoChild
    /\ success = TRUE
    /\ attempted = <<>>
    /\ outcomes = <<>>
    /\ validation = [runs |-> 0, passed |-> 0, total |-> 0, result |-> FALSE]
    /\ prereq = TRUE
    /\ exit_status = -1

NoExplorer ==
    [status |-> "none", row |-> 0, headline |-> <<>>, housing |-> <<>>,
     health |-> <<>>, tract_values |-> <<>>, city_values |-> <<>>,
     labels |-> <<>>]

NoAnalysis ==
    [status |-> "none", x_var |-> "", y_var |-> "",
     corr |-> [nan |-> TRUE, sgn |-> 0, sq |-> NaN], tier |-> "none"]

NoFrame == [columns |-> {}, rows |-> 0, data |-> <<>>]

NoOverview ==
    [status |-> "none", tracts |-> 0, avg_poverty |-> NaN,
     avg_unemployment |-> NaN, median_income |-> NaN, indicator |-> "",
     min |-> NaN, median |-> NaN, max |-> NaN, variance |-> NaN]

\* load_data has not been called
NoCache == [set |-> FALSE, value |-> [ok |-> FALSE, frame |-> NoFrame]]

\* main() of the dashboard is not running
IdleMain ==
    /\ csv = [kind |-> "missing", frame |-> NoFrame]
    /\ cache = NoCache
    /\ rendered = "none"
    /\ overview = NoOverview

IdleDashboard ==
    /\ loaded = NoFrame
    /\ df = NoFrame
    /\ explorer = NoExplorer
    /\ analysis = NoAnalysis
    /\ coef = <<0, 1>>
    /\ IdleMain

-----------------------------------------------------------------------------
(* Baltimore_Dashboard_Updated.py: show_neighborhood_explorer              *)

\* width of str.zfill in line 205
ZFillWidth == 6

\* str(n) of a non-negative integer, as its decimal digits
RECURSIVE Digits(_)
Digits(n) == IF n < 10 THEN <<n>> ELSE Append(Digits(n \div 10), n % 10)

\* str.zfill
RECURSIVE ZFill(_, _)
ZFill(s, w) == IF Len(s) >= w THEN s ELSE ZFill(<<0>> \o s, w)

\* line 205: df['tract_str'], row i
TractStr(i) == ZFill(Digits(TractCode(i)), ZFillWidth)

\* line 206: df['tract_display'], row i
TractDisplay(i) == [prefix |-> "Tract ", digits |-> TractStr(i)]

\* lines 205-206 add two columns to the frame the view was handed
PrepareTractSelection(d) ==
    [d EXCEPT !.columns = @ \cup {"tract_str", "tract_display"}]

\* line 215: the first row whose display text is the selected one
SelectedRow(d, sel) ==
    CHOOSE i \in 1..d.rows :
        /\ TractDisplay(i) = sel
        /\ \A j \in 1..(i - 1) : TractDisplay(j) # sel

PresentRows(d, k) == {i \in 1..d.rows : notna(d.data[k][i])}

RECURSIVE SumOver(_, _)
SumOver(col, S) ==
    IF S = {} THEN Q(0, 1)
    ELSE LET i == CHOOSE j \in S : TRUE
         IN  FAdd(col[i], SumOver(col, S \ {i}))

\* Series.mean(): missing cells are skipped; NaN when nothing is left
Mean(d, k) ==
    LET S == PresentRows(d, k)
    IN  IF S = {} THEN NaN
        ELSE FDiv(SumOver(d.data[k], S), Q(Cardinality(S), 1))

RECURSIVE SortRows(_, _)
SortRows(col, S) ==
    IF S = {} THEN <<>>
    ELSE LET m == CHOOSE i \in S : \A j \in S :
                    \/ FLess(col[i], col[j])
                    \/ (col[i] = col[j] /\ i <= j)
         IN  <<col[m]>> \o SortRows(col, S \ {m})

\* Series.median(): missing cells are skipped
Median(d, k) ==
    LET s == SortRows(d.data[k], PresentRows(d, k))
        n == Len(s)
    IN  IF n = 0 THEN NaN
        ELSE IF n % 2 = 1 THEN s[(n + 1) \div 2]
        ELSE FDiv(FAdd(s[n \div 2], s[n \div 2 + 1]), Q(2, 1))

\* lines 224-265: the four headline metrics and the city value each is
\* compared with; their columns are read without a guard
HeadlineIndicators ==
    << [key |-> "poverty_rate",                 city |-> "mean"],
       [key |-> "unemployment_rate",            city |-> "mean"],
       [key |-> "median_household_income_econ", city |-> "median"],
       [key |-> "gini_index",                   city |-> "mean"] >>

HeadlineKeys == {HeadlineIndicators[i].key : i \in 1..Len(HeadlineIndicators)}

Headline(d, row) ==
    [i \in 1..Len(HeadlineIndicators) |->
        LET h == HeadlineIndicators[i]
            city_avg == IF h.city = "median" THEN Median(d, h.key)
                        ELSE Mean(d, h.key)
        IN  [key |-> h.key, value |-> d.data[h.key][row],
             delta |-> FSub(d.data[h.key][row], city_avg)]]

\* lines 275-281
HousingEconomic ==
    << "housing_cost_burden_rate", "snap_participation_rate",
       "public_assistance_rate", "home_ownership_rate", "vacancy_rate" >>

\* lines 297-302
HealthEducation ==
    << "uninsured_rate", "disability_rate", "college_degree_rate",
       "long_commute_rate" >>

\* lines 319-326
comparison_indicators ==
    << "poverty_rate", "unemployment_rate", "snap_participation_rate",
       "housing_cost_burden_rate", "uninsured_rate", "college_degree_rate" >>

\* line 342: ind.replace('_', ' ').title()
Label(ind) ==
    CASE ind = "poverty_rate"                 -> "Poverty Rate"
      [] ind = "unemployment_rate"            -> "Unemployment Rate"
      [] ind = "median_household_income_econ" -> "Median Household Income Econ"
      [] ind = "gini_index"                   -> "Gini Index"
      [] ind = "housing_cost_burden_rate"     -> "Housing Cost Burden Rate"
      [] ind = "snap_participation_rate"      -> "Snap Participation Rate"
      [] ind = "public_assistance_rate"       -> "Public Assistance Rate"
      [] ind = "home_ownership_rate"          -> "Home Ownership Rate"
      [] ind = "vacancy_rate"                 -> "Vacancy Rate"
      [] ind = "uninsured_rate"               -> "Uninsured Rate"
      [] ind = "disability_rate"              -> "Disability Rate"
      [] ind = "college_degree_rate"          -> "College Degree Rate"
      [] ind = "long_commute_rate"            -> "Long Commute Rate"

\* mutant: "or" for "and": a key that is no column passes the guard
HasValueOrAbsent(d, row, key) ==
    key \notin d.columns \/ notna(d.data[key][row])

\* mutant: the guard forgets pd.notna
HasValueIgnoringNaN(d, row, key) == key \in d.columns

\* lines 284, 305, 333: key in tract_data.index and pd.notna(tract_data[key])
HasValue(d, row, key) ==
    key \in d.columns /\ notna(d.data[key][row])

\* Python's x != 0 on a float: true of NaN and of the infinities
NotZero(x) == x.nan \/ x.n # 0 \/ x.d = 0

\* mutant: the division without its guard
DiffPctUnguarded(value, city_avg) ==
    FMul(FDiv(FSub(value, city_avg), city_avg), Q(100, 1))

\* lines 287, 308
DiffPct(value, city_avg) ==
    IF NotZero(city_avg)
      THEN FMul(FDiv(FSub(value, city_avg), city_avg), Q(100, 1))
      ELSE Q(0, 1)

\* line 338
Normalized(tract_val, city_val) ==
    IF NotZero(city_val)
      THEN FMul(FDiv(tract_val, city_val), Q(100, 1))
      ELSE Q(100, 1)

\* lines 283-292 and 304-313: one detail list (cells are never negative,
\* so st.progress of line 290 accepts min(value / 100, 1.0))
RECURSIVE MetricLoop(_, _, _)
MetricLoop(d, row, metrics) ==
    IF metrics = <<>> THEN <<>>
    ELSE LET key == Head(metrics)
             value == d.data[key][row]
             city_avg == Mean(d, key)
         IN  (IF HasValue(d, row, key)
                THEN << [key |-> key, value |-> value,
                         diff_pct |-> DiffPct(value, city_avg)] >>
                ELSE <<>>)
             \o MetricLoop(d, row, Tail(metrics))

\* lines 328-342: the three lists of the radar chart, appended to in step
RECURSIVE RadarLoop(_, _, _, _)
RadarLoop(d, row, inds, acc) ==
    IF inds = <<>> THEN acc
    ELSE LET ind == Head(inds)
             tract_val == d.data[ind][row]
             city_val == Mean(d, ind)
         IN  RadarLoop(d, row, Tail(inds),
                IF HasValue(d, row, ind)
                  THEN [tract_values |->
                            Append(acc.tract_values,
                                   Normalized(tract_val, city_val)),
                        city_values |-> Append(acc.city_values, Q(100, 1)),
                        labels |-> Append(acc.labels, Label(ind))]
                  ELSE acc)

\* show_neighborhood_explorer on the frame d0 with row r chosen in the
\* tract selectbox: the frame as the view leaves it and what it renders. A
\* headline column that the frame lacks raises KeyError and ends the view.
ExplorerView(d0, r) ==
    CHOOSE v \in
      {[df |-> d,
        explorer |->
          IF \E k \in HeadlineKeys : k \notin d.columns
            THEN [NoExplorer EXCEPT !.status = "KeyError", !.row = row]
            ELSE [status |-> "ok", row |-> row,
                  headline |-> Headline(d, row),
                  housing |-> MetricLoop(d, row, HousingEconomic),
                  health |-> MetricLoop(d, row, HealthEducation),
                  tract_values |-> radar.tract_values,
                  city_values |-> radar.city_values,
                  labels |-> radar.labels]] :
         d \in {PrepareTractSelection(d0)},
         row \in {SelectedRow(PrepareTractSelection(d0), TractDisplay(r))},
         radar \in {RadarLoop(PrepareTractSelection(d0),
                      SelectedRow(PrepareTractSelection(d0), TractDisplay(r)),
                      comparison_indicators,
                      [tract_values |-> <<>>, city_values |-> <<>>,
                       labels |-> <<>>])}} : TRUE

\* show_neighborhood_explorer for one selection of the tract selectbox
ShowNeighborhoodExplorer ==
    /\ pc = "idle"
    /\ df.rows > 0
    /\ \E r \in 1..df.rows :
       \E v \in {ExplorerView(df, r)} :
         /\ df' = v.df
         /\ explorer' = v.explorer
    /\ UNCHANGED <<pvars, loaded, analysis, coef, mvars>>

-----------------------------------------------------------------------------
(* Baltimore_Dashboard_Updated.py: show_indicator_analysis                 *)

\* lines 381-387: the keys of indicators_x
indicators_x ==
    << "poverty_rate", "unemployment_rate", "median_household_income_econ",
       "gini_index", "snap_participation_rate" >>

\* lines 392-398: the keys of indicators_y
indicators_y ==
    << "uninsured_rate", "disability_rate", "college_degree_rate",
       "housing_cost_burden_rate", "vacancy_rate" >>

\* DataFrame.corr(): the rows in which both cells are present
PairedRows(d, x, y) ==
    {i \in 1..d.rows : notna(d.data[x][i]) /\ notna(d.data[y][i])}

RECURSIVE SumInt(_, _, _)
SumInt(colA, colB, S) ==
    IF S = {} THEN 0
    ELSE LET i == CHOOSE j \in S : TRUE
         IN  colA[i].n * colB[i].n + SumInt(colA, colB, S \ {i})

Ones(rows) == [i \in 1..rows |-> Q(1, 1)]

\* line 424: df[[x_var, y_var]].corr().iloc[0, 1], the Pearson coefficient
\* over the paired rows. The coefficient r is kept as its sign and r * r.
\* pandas divides the co-moment by the root of the product of the two
\* second moments and gives NaN when that is 0, which is the case with
\* fewer than 2 paired rows or a constant column. (Cells are integers.)
Corr(d, x, y) ==
    LET S   == PairedRows(d, x, y)
        n   == Cardinality(S)
        one == Ones(d.rows)
        sx  == SumInt(d.data[x], one, S)
        sy  == SumInt(d.data[y], one, S)
        sxx == n * SumInt(d.data[x], d.data[x], S) - sx * sx
        syy == n * SumInt(d.data[y], d.data[y], S) - sy * sy
        sxy == n * SumInt(d.data[x], d.data[y], S) - sx * sy
    IN  IF sxx * syy = 0
          THEN [nan |-> TRUE, sgn |-> 0, sq |-> NaN]
          ELSE [nan |-> FALSE, sgn |-> Sign(sxy),
                sq |-> Q(sxy * sxy, sxx * syy)]

\* the coefficient n/d in the same form
FromFraction(n, d) ==
    [nan |-> FALSE, sgn |-> Sign(n) * Sign(d), sq |-> Q(n * n, d * d)]

\* abs(corr) > p/q, for p, q > 0; false of NaN
AbsGreater(c, p, q) == ~c.nan /\ c.sq.n * q * q > p * p * c.sq.d

\* mutant: the thresholds taken inclusively
TierInclusive(c) ==
    IF ~c.nan /\ c.sq.n * 100 >= 49 * c.sq.d THEN "Strong"
    ELSE IF ~c.nan /\ c.sq.n * 100 >= 16 * c.sq.d THEN "Moderate"
    ELSE "Weak"

\* lines 427-432: 0.7 is 7/10 and 0.4 is 4/10
Tier(c) ==
    IF AbsGreater(c, 7, 10) THEN "Strong"
    ELSE IF AbsGreater(c, 4, 10) THEN "Moderate"
    ELSE "Weak"

\* show_indicator_analysis on the frame d for one choice of the two
\* selectboxes. The scatter plot of line 403 raises ValueError for a name
\* that is no column.
AnalysisView(d, x_var, y_var) ==
    IF x_var \notin d.columns \/ y_var \notin d.columns
      THEN [status |-> "ValueError", x_var |-> x_var, y_var |-> y_var,
            corr |-> [nan |-> TRUE, sgn |-> 0, sq |-> NaN],
            tier |-> "none"]
      ELSE [status |-> "ok", x_var |-> x_var, y_var |-> y_var,
            corr |-> Corr(d, x_var, y_var),
            tier |-> Tier(Corr(d, x_var, y_var))]

\* show_indicator_analysis for one choice of the two selectboxes
ShowIndicatorAnalysis ==
    /\ pc = "idle"
    /\ df.rows > 0
    /\ \E x_var \in Range(indicators_x), y_var \in Range(indicators_y) :
         analysis' = AnalysisView(df, x_var, y_var)
    /\ UNCHANGED <<pvars, loaded, df, explorer, coef, mvars>>

\* lines 427-432 applied to the coefficient coef[1] / coef[2]
ClassifyCoefficient ==
    /\ pc = "idle"
    /\ df.rows = 0
    /\ analysis' = [status |-> "ok", x_var |-> "", y_var |-> "",
                    corr |-> FromFraction(coef[1], coef[2]),
                    tier |-> Tier(FromFraction(coef[1], coef[2]))]
    /\ UNCHANGED <<pvars, loaded, df, explorer, coef, mvars>>

-----------------------------------------------------------------------------
(* Baltimore_Dashboard_Updated.py: load_data, main and show_city_overview  *)

\* the states of data/integrated/baltimore_integrated_expanded_2022.csv
NoFile == [kind |-> "missing", frame |-> NoFrame]

GarbledFile == [kind |-> "unparseable", frame |-> NoFrame]

TableFile(f) == [kind |-> "table", frame |-> f]

\* line 54, pd.read_csv: it raises for a file that is not there or that it
\* cannot parse; a file with a header line and no data line parses to a
\* frame of zero rows
read_csv(c) ==
    IF c.kind = "table" THEN [raised |-> FALSE, frame |-> c.frame]
    ELSE [raised |-> TRUE, frame |-> NoFrame]

\* lines 53-58: the frame as parsed, or None (ok = FALSE) with an error
\* message when read_csv raised
load_data(c) ==
    IF read_csv(c).raised THEN [ok |-> FALSE, frame |-> NoFrame]
    ELSE [ok |-> TRUE, frame |-> read_csv(c).frame]

\* line 50, st.cache_data: the first call runs load_data, later calls
\* get a copy of what the first call returned
CachedLoad == IF cache.set THEN cache.value ELSE load_data(csv)

\* lines 135-149: the indicators of the three categories
indicator_categories ==
    << "poverty_rate", "unemployment_rate", "median_household_income_econ",
       "gini_index", "snap_participation_rate", "housing_cost_burden_rate",
       "uninsured_rate", "disability_rate", "college_degree_rate" >>

\* lines 104, 112, 120: the columns of the three city metrics
OverviewKeys ==
    {"poverty_rate", "unemployment_rate", "median_household_income_econ"}

\* Series.min() and Series.max() of the cells that are present
Min(d, k) ==
    LET s == SortRows(d.data[k], PresentRows(d, k))
    IN  IF Len(s) = 0 THEN NaN ELSE s[1]

Max(d, k) ==
    LET s == SortRows(d.data[k], PresentRows(d, k))
    IN  IF Len(s) = 0 THEN NaN ELSE s[Len(s)]

\* Series.std() squared: the sample variance, NaN below two cells
Variance(d, k) ==
    LET S  == PresentRows(d, k)
        n  == Cardinality(S)
        m  == Mean(d, k)
        sq == [i \in 1..d.rows |->
                 FMul(FSub(d.data[k][i], m), FSub(d.data[k][i], m))]
    IN  IF n < 2 THEN NaN ELSE FDiv(SumOver(sq, S), Q(n - 1, 1))

\* show_city_overview on the frame d with one indicator selected; a column
\* that the frame lacks raises KeyError and ends the view
ShowCityOverview(d, indicator) ==
    IF \E k \in OverviewKeys \cup {indicator} : k \notin d.columns
      THEN [NoOverview EXCEPT !.status = "KeyError", !.tracts = d.rows,
                              !.indicator = indicator]
      ELSE [status |-> "ok", tracts |-> d.rows,
            avg_poverty |-> Mean(d, "poverty_rate"),
            avg_unemployment |-> Mean(d, "unemployment_rate"),
            median_income |-> Median(d, "median_household_income_econ"),
            indicator |-> indicator,
            min |-> Min(d, indicator), median |-> Median(d, indicator),
            max |-> Max(d, indicator), variance |-> Variance(d, indicator)]

\* show_neighborhood_explorer on a frame of zero rows: the two columns are
\* added, the selectbox has no option and line 215 takes .iloc[0] of an
\* empty selection
ExplorerNoRows(d0) ==
    [df |-> PrepareTractSelection(d0),
     explorer |-> [NoExplorer EXCEPT !.status = "IndexError"]]

\* show_indicator_analysis on a frame of zero rows. Its columns have no
\* numeric type: depending on the pandas release corr() drops them, and
\* .iloc[0, 1] raises IndexError, or it yields NaN
AnalysisNoRows(d, x_var, y_var) ==
    {[AnalysisView(d, x_var, y_var) EXCEPT !.status = "IndexError",
                                            !.tier = "none"],
     AnalysisView(d, x_var, y_var)}

\* lines 66-69: load_data returned None; main returns with the error
\* message on the page
MainDataUnavailable ==
    /\ pc = "idle"
    /\ ~CachedLoad.ok
    /\ cache' = [set |-> TRUE, value |-> CachedLoad]
    /\ rendered' = "error"
    /\ loaded' = NoFrame
    /\ df' = NoFrame
    /\ overview' = NoOverview
    /\ explorer' = NoExplorer
    /\ analysis' = NoAnalysis
    /\ UNCHANGED <<pvars, coef, csv>>

\* lines 66-82: a run of main with view_mode "City Overview"
MainCityOverview ==
    /\ pc = "idle"
    /\ CachedLoad.ok
    /\ cache' = [set |-> TRUE, value |-> CachedLoad]
    /\ loaded' = CachedLoad.frame
    /\ df' = CachedLoad.frame
    /\ rendered' = "overview"
    /\ \E indicator \in Range(indicator_categories) :
         overview' = ShowCityOverview(CachedLoad.frame, indicator)
    /\ explorer' = NoExplorer
    /\ analysis' = NoAnalysis
    /\ UNCHANGED <<pvars, coef, csv>>

\* lines 66-84: a run of main with view_mode "Neighborhood Explorer"
MainNeighborhoodExplorer ==
    /\ pc = "idle"
    /\ CachedLoad.ok
    /\ cache' = [set |-> TRUE, value |-> CachedLoad]
    /\ loaded' = CachedLoad.frame
    /\ rendered' = "explorer"
    /\ \E v \in IF CachedLoad.frame.rows = 0
                  THEN {ExplorerNoRows(CachedLoad.frame)}
                  ELSE {ExplorerView(CachedLoad.frame, r) :
                           r \in 1..CachedLoad.frame.rows} :
         /\ df' = v.df
         /\ explorer' = v.explorer
    /\ overview' = NoOverview
    /\ analysis' = NoAnalysis
    /\ UNCHANGED <<pvars, coef, csv>>

\* lines 66-86: a run of main with view_mode "Indicator Analysis"
MainIndicatorAnalysis ==
    /\ pc = "idle"
    /\ CachedLoad.ok
    /\ cache' = [set |-> TRUE, value |-> CachedLoad]
    /\ loaded' = CachedLoad.frame
    /\ df' = CachedLoad.frame
    /\ rendered' = "analysis"
    /\ \E x_var \in Range(indicators_x), y_var \in Range(indicators_y) :
         analysis' \in
            IF CachedLoad.frame.rows = 0
              THEN AnalysisNoRows(CachedLoad.frame, x_var, y_var)
              ELSE {AnalysisView(CachedLoad.frame, x_var, y_var)}
    /\ overview' = NoOverview
    /\ explorer' = NoExplorer
    /\ UNCHANGED <<pvars, coef, csv>>

\* lines 66-88: a run of main with view_mode "About"; show_about takes no
\* frame
MainAbout ==
    /\ pc = "idle"
    /\ CachedLoad.ok
    /\ cache' = [set |-> TRUE, value |-> CachedLoad]
    /\ loaded' = CachedLoad.frame
    /\ df' = CachedLoad.frame
    /\ rendered' = "about"
    /\ overview' = NoOverview
    /\ explorer' = NoExplorer
    /\ analysis' = NoAnalysis
    /\ UNCHANGED <<pvars, coef, csv>>

-----------------------------------------------------------------------------
(* Specifications                                                          *)

\* one run of the pipeline driver, from any command line and any state of
\* the working directory
InitPipeline ==
    /\ args \in [skip_download : BOOLEAN, validate_only : BOOLEAN]
    /\ env \in [dotenv : BOOLEAN, scripts : SUBSET Range(RequiredScripts),
                pandas : BOOLEAN]
    /\ fs \in [Range(OutputFiles) -> {"absent", "old"}]
    /\ IF fs[integrated_file] = "absent"
         THEN table = NoTable
         ELSE table \in [rows : RowCounts, readable : BOOLEAN]
    /\ pc = "prereq"
    /\ step = 1
    /\ child = NoChild
    /\ success = TRUE
    /\ attempted = <<>>
    /\ outcomes = <<>>
    /\ validation = [runs |-> 0, passed |-> 0, total |-> 0, result |-> FALSE]
    /\ prereq = TRUE
    /\ exit_status = -1
    /\ IdleDashboard

NextPipeline ==
    \/ CheckPrerequisites
    \/ StartScript
    \/ SpawnFails
    \/ ChildBeginWrite
    \/ ChildFinishWrite
    \/ ChildReplaceFile
    \/ ChildExits
    \/ TimeoutExpired
    \/ RunValidation
    \/ Finish

SpecPipeline == InitPipeline /\ [][NextPipeline]_vars

\* the frames the views are tried on: either up to MaxAbsent indicator
\* columns are absent, or one column holds any cells; every other column
\* holds a fixed mixture of values and missing cells
AbsentSets(most) == {A \in SUBSET Range(Keys) : Cardinality(A) <= most}

Frames(rows) ==
    {Frame(rows, absent, <<>>) : absent \in AbsentSets(MaxAbsent)}
        \cup {Frame(rows, {}, k :> col) :
                 k \in Range(Keys), col \in [1..rows -> Cells]}

\* the explorer on a loaded frame
InitExplorer ==
    /\ IdlePipeline
    /\ IdleMain
    /\ loaded \in Frames(NumTracts)
    /\ df = loaded
    /\ explorer = NoExplorer
    /\ analysis = NoAnalysis
    /\ coef = <<0, 1>>

NextExplorer == ShowNeighborhoodExplorer

SpecExplorer == InitExplorer /\ [][NextExplorer]_vars

\* frames of one more row in which the first X column holds any cells and
\* the first Y column any values: three rows let the coefficient differ
\* from 1 and -1
PairFrames(rows) ==
    {Frame(rows, {}, (indicators_x[1] :> colx) @@ (indicators_y[1] :> coly)) :
        colx \in [1..rows -> Cells], coly \in [1..rows -> Cells \ {NaN}]}

\* the analysis view on a loaded frame
InitAnalysis ==
    /\ IdlePipeline
    /\ IdleMain
    /\ loaded \in Frames(NumTracts) \cup PairFrames(NumTracts + 1)
    /\ df = loaded
    /\ explorer = NoExplorer
    /\ analysis = NoAnalysis
    /\ coef = <<0, 1>>

NextAnalysis == ShowIndicatorAnalysis

SpecAnalysis == InitAnalysis /\ [][NextAnalysis]_vars

\* largest denominator of the coefficients that are classified
MaxDen == 10

\* the tiering on its own, for every coefficient n/d of [-1, 1], d <= MaxDen
InitTier ==
    /\ IdlePipeline
    /\ IdleMain
    /\ loaded = NoFrame
    /\ df = NoFrame
    /\ explorer = NoExplorer
    /\ analysis = NoAnalysis
    /\ coef \in {<<n, d>> : n \in -MaxDen..MaxDen, d \in 1..MaxDen}
    /\ Abs(coef[1]) <= coef[2]

NextTier == ClassifyCoefficient

SpecTier == InitTier /\ [][NextTier]_vars

\* the files a session of the dashboard is tried on: no file, a file that
\* does not parse, and the tables of zero rows and of the given number of
\* rows
CsvFiles(rows) ==
    {NoFile, GarbledFile}
        \cup {TableFile(f) : f \in Frames(0) \cup Frames(rows)}

\* a session of the dashboard: any sequence of runs of main, one per
\* selection in the sidebar, on a file that stays as it is
InitDashboard ==
    /\ IdlePipeline
    /\ csv \in CsvFiles(NumTracts)
    /\ cache = NoCache
    /\ rendered = "none"
    /\ overview = NoOverview
    /\ loaded = NoFrame
    /\ df = NoFrame
    /\ explorer = NoExplorer
    /\ analysis = NoAnalysis
    /\ coef = <<0, 1>>

NextDashboard ==
    \/ MainDataUnavailable
    \/ MainCityOverview
    \/ MainNeighborhoodExplorer
    \/ MainIndicatorAnalysis
    \/ MainAbout

SpecDashboard == InitDashboard /\ [][NextDashboard]_vars

-----------------------------------------------------------------------------
(* Claims about the pipeline driver                                        *)

PosOf(script) == CHOOSE i \in 1..Len(RequiredScripts) : RequiredScripts[i] = script

SomeStepFailed == \E j \in 1..Len(outcomes) : outcomes[j] # "ok"

\* C1: the scripts are attempted in the fixed order expand -> fetch ->
\* integrate -> generate; a script is attempted only if every script
\* attempted before it succeeded; once a step has failed (non-zero exit,
\* timeout or exception) no later script and no validation is started.
C1_AbortOnFirstFailure ==
    /\ \A i \in 1..Len(attempted) : \A j \in 1..(i - 1) :
         /\ PosOf(attempted[j]) < PosOf(attempted[i])
         /\ j <= Len(outcomes)
         /\ outcomes[j] = "ok"
    /\ \A j \in 1..Len(outcomes) :
         outcomes[j] # "ok" =>
            /\ j = Len(attempted)
            /\ child = NoChild
            /\ validation.runs = 0
            /\ pc \in {"summary", "done"}

C1_Witness ==
    /\ pc = "done"
    /\ attempted = << "expand_health_indicators.py",
                      "fetch_census_economic_data.py" >>
    /\ outcomes = << "ok", "timeout" >>
    /\ validation.runs = 0

FullSuccess ==
    /\ \A j \in 1..Len(outcomes) : outcomes[j] = "ok"
    /\ validation.runs > 0 => validation.result

\* C2: the exit status is 0 exactly when every step that was run succeeded
\* and the validation that was run passed all its checks, and 1 otherwise.
C2_ExitStatusIffFullSuccess ==
    pc = "done" =>
        /\ exit_status \in {0, 1}
        /\ (exit_status = 0) <=> FullSuccess

\* C3: after a run in which some step failed, the integrated table file is
\* the complete file from before the run (or still absent) or a complete
\* new file, never a partially written one.
C3_NoPartialTableAfterFailure ==
    (pc = "done" /\ SomeStepFailed) =>
        fs[integrated_file] \in {"absent", "old", "new"}

FilesFound == {f \in Range(OutputFiles) : Exists(f)}

RowsHeld ==
    env.pandas /\ Exists(integrated_file) /\ table.readable /\ table.rows = 199

\* C4: run_validation counts exactly 5 checks (four file existence checks
\* and the 199-row check of the integrated table); the number passed is the
\* number of checks that held; it returns success iff all 5 passed, so a
\* missing file, a row count other than 199 or an unreadable table fail it.
C4_ValidationCounts ==
    validation.runs > 0 =>
        /\ validation.total = 5
        /\ validation.passed =
              Cardinality(FilesFound) + (IF RowsHeld THEN 1 ELSE 0)
        /\ validation.result <=> (validation.passed = validation.total)
        /\ (\E f \in Range(OutputFiles) : ~Exists(f)) => ~validation.result
        /\ table.rows # 199 => ~validation.result
        /\ ~table.readable => ~validation.result

C4_Witness ==
    /\ validation.runs = 1
    /\ validation.passed = 4
    /\ Cardinality(FilesFound) = 4
    /\ env.pandas
    /\ table.readable
    /\ table.rows # 199
    /\ ~validation.result

\* C5: with --skip-download alone the two extraction scripts are never run
\* while integration, generation and validation still run in that order;
\* with --validate-only no script is run and only the validation runs,
\* whatever --skip-download is.
C5_FlagsSelectSteps ==
    /\ (args.skip_download /\ ~args.validate_only) =>
         /\ \A i \in 1..Len(attempted) :
              attempted[i] \notin Range(ExtractionSteps)
         /\ pc = "done" =>
              /\ Len(attempted) >= 1
              /\ attempted[1] = "integrate_economic_data.py"
              /\ outcomes[1] = "ok" =>
                   /\ Len(attempted) = 2
                   /\ attempted[2] = "Baltimore_MetricsWithMap.py"
              /\ validation.runs =
                   (IF Len(outcomes) = 2 /\ ~SomeStepFailed THEN 1 ELSE 0)
    /\ args.validate_only =>
         /\ attempted = <<>>
         /\ child = NoChild
         /\ pc = "done" => validation.runs = 1

C5_Witness ==
    /\ pc = "done"
    /\ args.skip_download
    /\ ~args.validate_only
    /\ attempted = << "integrate_economic_data.py",
                      "Baltimore_MetricsWithMap.py" >>
    /\ validation.runs = 1

\* the scripts main() is to run for a command line, whatever the directory
StepsFor(a) ==
    IF a.validate_only THEN <<>>
    ELSE IF a.skip_download
      THEN << "integrate_economic_data.py", "Baltimore_MetricsWithMap.py" >>
      ELSE RequiredScripts

AllOk == \A j \in 1..Len(outcomes) : outcomes[j] = "ok"

\* C13: the outcome of the prerequisite check never influences the run:
\* whatever .env file and scripts are missing, the steps attempted, the
\* validation and the exit status are the ones fixed by the command line,
\* the step outcomes and the validation result alone, the same as when the
\* check passes.
C13_PrerequisitesDoNotInfluence ==
    /\ pc # "prereq" => (prereq <=> AllGood(env))
    /\ pc = "done" =>
         /\ Len(outcomes) = Len(attempted)
         /\ attempted = SubSeq(StepsFor(args), 1, Len(outcomes))
         /\ AllOk => Len(attempted) = Len(StepsFor(args))
         /\ validation.runs = (IF AllOk THEN 1 ELSE 0)
         /\ exit_status =
              (IF args.validate_only
                 THEN (IF validation.result THEN 0 ELSE 1)
                 ELSE (IF AllOk THEN 0 ELSE 1))

C13_Witness ==
    /\ pc = "done"
    /\ ~prereq
    /\ ~env.dotenv
    /\ env.scripts = Range(RequiredScripts)
    /\ attempted = RequiredScripts
    /\ AllOk
    /\ validation.runs = 1
    /\ exit_status = 0

-----------------------------------------------------------------------------
(* Claims about the tract comparison                                       *)

Details == explorer.housing \o explorer.health

KeyOfLabel(l) == CHOOSE k \in Range(Keys) : Label(k) = l

Finite(x) == ~x.nan /\ x.d # 0

\* C6: when the city aggregate of an indicator is 0 the percent difference
\* is 0 and the normalized value is 100, and nothing fails; otherwise
\* percent difference = (tract - city) / city * 100 and normalized =
\* tract / city * 100 (both stated cross-multiplied).
C6_ZeroCityAggregate ==
    explorer.status # "none" =>
      /\ explorer.status \in {"ok", "KeyError"}
      /\ \A i \in 1..Len(Details) :
           LET e == Details[i]
               v == loaded.data[e.key][explorer.row]
               c == Mean(loaded, e.key)
           IN  /\ Finite(e.diff_pct)
               /\ IsZero(c) => e.diff_pct = Q(0, 1)
               /\ ~IsZero(c) =>
                    e.diff_pct.n * v.d * c.n
                        = e.diff_pct.d * 100 * (v.n * c.d - c.n * v.d)
      /\ \A i \in 1..Len(explorer.tract_values) :
           LET t == explorer.tract_values[i]
               k == KeyOfLabel(explorer.labels[i])
               v == loaded.data[k][explorer.row]
               c == Mean(loaded, k)
           IN  /\ Finite(t)
               /\ IsZero(c) => t = Q(100, 1)
               /\ ~IsZero(c) => t.n * v.d * c.n = t.d * 100 * v.n * c.d

C6_Witness ==
    /\ explorer.status = "ok"
    /\ \E i \in 1..Len(Details) :
         /\ IsZero(Mean(loaded, Details[i].key))
         /\ Details[i].diff_pct = Q(0, 1)
    /\ \E i \in 1..Len(explorer.labels) :
         /\ IsZero(Mean(loaded, KeyOfLabel(explorer.labels[i])))
         /\ explorer.tract_values[i] = Q(100, 1)
    /\ \E i \in 1..Len(Details) :
         /\ ~IsZero(Mean(loaded, Details[i].key))
         /\ Details[i].diff_pct # Q(0, 1)

\* the keys the detail lists and the radar chart ask for under a guard
GuardedKeys ==
    Range(HousingEconomic) \cup Range(HealthEducation)
        \cup Range(comparison_indicators)

RequestedKeys == HeadlineKeys \cup GuardedKeys

EntryKeys ==
    {Details[i].key : i \in 1..Len(Details)}
        \cup {KeyOfLabel(explorer.labels[i]) : i \in 1..Len(explorer.labels)}

-----------------------------------------------------------------------------
(* Claims about the correlation analysis                                   *)

\* C9: the tier is a total function of the coefficient c = n/d in [-1, 1]:
\* Strong iff |c| > 0.7, Moderate iff 0.4 < |c| <= 0.7, Weak otherwise; so
\* |c| = 0.70 is Moderate, |c| = 0.40 is Weak, and only |c| matters.
C9_TierOfCoefficient ==
    analysis.status = "ok" =>
      LET a == Abs(coef[1])
          d == coef[2]
      IN  /\ analysis.tier \in {"Strong", "Moderate", "Weak"}
          /\ analysis.tier = "Strong" <=> 10 * a > 7 * d
          /\ analysis.tier = "Moderate" <=>
                (4 * d < 10 * a /\ 10 * a <= 7 * d)
          /\ analysis.tier = "Weak" <=> 10 * a <= 4 * d
          /\ 10 * a = 7 * d => analysis.tier = "Moderate"
          /\ 10 * a = 4 * d => analysis.tier = "Weak"

C9_Witness ==
    /\ analysis.status = "ok"
    /\ coef = <<-7, 10>>
    /\ analysis.tier = "Moderate"

\* C10: with fewer than 2 rows in which both chosen indicators are present
\* the correlation fails with InsufficientData: no coefficient and no tier
\* are shown.
C10_InsufficientData ==
    (/\ analysis.status # "none"
     /\ analysis.x_var \in df.columns
     /\ analysis.y_var \in df.columns
     /\ Cardinality(PairedRows(df, analysis.x_var, analysis.y_var)) < 2)
    => /\ analysis.status = "InsufficientData"
       /\ analysis.tier = "none"

-----------------------------------------------------------------------------
(* Claims about load_data and main                                         *)

Views == {"overview", "explorer", "analysis", "about"}

\* C11: after any sequence of view selections the frame a view was given
\* has the columns and the values of the loaded dataset: no view adds,
\* removes or changes a column or a row. (show_neighborhood_explorer adds
\* the columns tract_str and tract_display.)
C11_ViewsLeaveDatasetAlone ==
    /\ cache.set /\ cache.value.ok => cache.value.frame = csv.frame
    /\ rendered \in Views =>
         /\ df.columns = loaded.columns
         /\ df.rows = loaded.rows
         /\ df.data = loaded.data

\* C12: loading reports failure whenever the file does not exist, cannot
\* be parsed, or parses to a table of zero rows, and returns a dataset only
\* otherwise; after a failure no view is rendered in that run. (A table of
\* zero rows is returned as a dataset and the views are rendered.)
C12_LoadFailureAndNoView ==
    rendered # "none" =>
      /\ rendered = "error" <=>
            (csv.kind \in {"missing", "unparseable"} \/ csv.frame.rows = 0)
      /\ rendered = "error" =>
            /\ overview = NoOverview
            /\ explorer = NoExplorer
            /\ analysis = NoAnalysis

=============================================================================
